---- MODULE Spec2Model ----
(***************************************************************************)
(* The request-orchestration gateway of wrapper-network-api: the two       *)
(* server variants (src/unnamed/part_000 and src/network-api/index.js),    *)
(* their POST /analyze and POST /analyze-audio handlers, the shared        *)
(* audioProcessingCount and the scratch files on disk.                     *)
(*                                                                         *)
(* One action is one continuation of an async handler: the completion of   *)
(* the awaited operation together with the synchronous code that follows   *)
(* it up to the next await.  Node runs each continuation to completion, so *)
(* the awaits are the only points where handlers interleave.               *)
(***************************************************************************)
EXTENDS Integers, FiniteSets, Sequences, TLC

\* Number of requests the gateway receives in one run.
NumReqs == 2

\* waitForFile's timeoutMs counted in sleeps of intervalMs.
MaxWait == 2

Reqs == 1..NumReqs

Servers == {"part_000", "index_js"}

Kinds == {"image", "audio"}

VARIABLES
  server,                \* which server variant is running
  audioProcessingCount,  \* let audioProcessingCount = 0
  disk,                  \* the files that exist: <<what, request>>
  dirs,                  \* the directories that exist
  req,                   \* per request: the handler's locals and its history
  answered,              \* per request: what the backend answered (history)
  health,                \* the handler of GET /api/health/audio|image
  poll,                  \* one call of waitForFile, with its clock
  names,                 \* the paths of the polling image pipeline
  front                  \* the files of the web front-end (uploadState.files)

vars ==
  <<server, audioProcessingCount, disk, dirs, req, answered, health, poll, names,
    front>>

\* The state of the gateway proper.
gateway == <<server, audioProcessingCount, disk, dirs, req>>

-----------------------------------------------------------------------------
(* The state of a request that has not arrived yet. *)
Fresh ==
  [ pc             |-> "idle",
    kind           |-> "image",
    file           |-> FALSE,     \* req.file is set
    inputFilePath  |-> FALSE,     \* inputFilePath !== null
    inputJsonPath  |-> FALSE,     \* inputJsonPath !== null
    outputFilePath |-> FALSE,     \* outputFilePath !== null
    error          |-> "none",    \* the error the catch block caught
    status         |-> 0,         \* HTTP status sent, 0 = no response yet
    responses      |-> 0,         \* res.json(...) calls executed
    tag            |-> "none",    \* the body's error field, or "result"
    message        |-> FALSE,     \* the body has a message field
    incs           |-> 0,         \* audioProcessingCount++ executed
    decs           |-> 0,         \* audioProcessingCount-- executed
    ops            |-> {},        \* kinds of I/O the handler has issued
    rmFailed       |-> {},        \* artifacts whose last removal failed
    rmAtCatch      |-> {},        \* removals attempted inside the catch block
    waited         |-> 0,         \* sleeps done by waitForFile
    backendWrote   |-> FALSE,     \* the backend wrote a result file
    parsedResult   |-> "none",    \* const parsedResult / const result
    body           |-> "none" ]   \* what res.json(...) was given on success

\* No answer of the backend has been seen.
NoAnswer ==
  [ got      |-> FALSE,
    success  |-> FALSE,
    nonEmpty |-> FALSE,
    first    |-> "undefined",
    late     |-> FALSE ]        \* the backend finished after axios gave up

\* No health check has arrived.
NoHealth ==
  [ pc         |-> "idle",
    which      |-> "audio",     \* /api/health/audio or /api/health/image
    seen       |-> 0,           \* audioProcessingCount when the handler ran
    probes     |-> 0,           \* axios.get(.../health) issued
    probe      |-> "none",      \* how the probe ended
    status     |-> "none",      \* status of the response
    processing |-> FALSE,       \* the response has processing: true
    count      |-> 0,           \* count of the response (0: no count field)
    unanswered |-> 0,           \* audio requests in progress when it ran
    sent       |-> 0,           \* audio requests answered before it ran
    atResponse |-> 0 ]          \* audioProcessingCount when it answered

\* waitForFile has not been called.
NoPoll ==
  [ pc         |-> "idle",
    timeoutMs  |-> 0,
    intervalMs |-> 1,
    now        |-> 0,           \* Date.now()
    startTime  |-> 0,
    wake       |-> 0,           \* when the pending setTimeout fires
    exists     |-> FALSE,       \* the file exists
    createdAt  |-> 0,           \* when it was created
    checks     |-> 0,           \* fs.access calls completed
    lastCheck  |-> 0,           \* when the last one completed
    endedAt    |-> 0 ]          \* when the call returned or threw

\* A request of the polling image pipeline that has not arrived.
NoPath ==
  [ pc      |-> "idle",
    input   |-> 0,             \* the uuid in inputFilePath, 0 = null
    output  |-> 0,             \* the name in outputFilePath, 0 = null
    wrote   |-> FALSE,         \* the backend wrote the request's result file
    read    |-> 0,             \* whose result readFile returned, 0 = none
    removed |-> {},            \* whose result files its fs.unlink removed
    failed  |-> FALSE,         \* the catch block was entered
    status  |-> 0 ]

\* No name has been generated and the directories are empty.
NoNames ==
  [ nextId |-> 1,                    \* the next value of uuidv4()
    work   |-> {},                   \* the names in TEST_IMAGES_DIR
    out    |-> {},                   \* OUTPUT_DIR: <<name, request it is of>>
    rq     |-> [r \in Reqs |-> NoPath] ]

\* The number of files the front-end uploads.
NumFiles == 2

Files == 1..NumFiles

\* A file of the front-end that has not been dropped yet.
NoFile ==
  [ pc     |-> "idle",
    copy   |-> "none",         \* which definition of uploadFile runs
    type   |-> "image",        \* fileData.type
    http   |-> 0,              \* response.status, 0 = no response
    status |-> "none",         \* fileData.status
    error  |-> "none" ]        \* fileData.error

NoFront == [f \in Files |-> NoFile]

Init ==
  /\ server \in Servers
  /\ audioProcessingCount = 0
  /\ disk = {}
  /\ dirs = {}
  /\ req = [r \in Reqs |-> Fresh]
  /\ answered = [r \in Reqs |-> NoAnswer]
  /\ health = NoHealth
  /\ poll = NoPoll
  /\ names = NoNames
  /\ front = NoFront

-----------------------------------------------------------------------------
(* What differs between the two server variants. *)

\* The handler creates OUTPUT_DIR: the audio handler of both variants, the
\* image handler of index.js only.
HasOutputDir(srv, kind) == kind = "audio" \/ srv = "index_js"

\* The image handler waits for a result file (index.js); part_000 takes the
\* results inline from the response.
UsesPoller(srv, kind) == kind = "image" /\ srv = "index_js"

\* axios.post is given a timeout option (part_000: 120000 ms, both handlers).
PostTimeout(srv, kind) == srv = "part_000"

\* The errors axios.post can reject with when no timeout fires: the backend
\* is not reachable, or the connection breaks while it is processing.  (A
\* non-2xx answer is rejected too; the handlers treat it as ECONNREFUSED.)
NetworkErrors == {"ECONNREFUSED", "ECONNRESET"}

\* error.message.includes('timeout'): of the errors that reach the catch
\* block only axios' own "timeout of 120000ms exceeded" has the word; the
\* poller's message starts with a capital "Timeout".
MessageIncludesTimeout(e) == e = "ECONNABORTED"

\* Mutant: every connection error counts as a timeout.
IsTimeoutError_AnyNetwork(e) ==
  e \in {"ECONNABORTED", "ECONNRESET", "ECONNREFUSED"}

\* The test of the audio catch block of part_000.
IsTimeoutError(e) ==
  e = "ECONNABORTED" \/ e = "ECONNRESET" \/ MessageIncludesTimeout(e)

\* The status the audio catch block answers with.
AudioErrorStatus(srv, e) ==
  IF srv = "part_000" /\ IsTimeoutError(e) THEN 504 ELSE 500

\* audioProcessingCount++ at the head of the audio handler.
IncrementOnEntry(c) == c + 1

\* Mutant: the missing-file branch returns without its decrement.
DecrementOnMissing_Skipped(c) == c

\* audioProcessingCount-- of the missing-file branch.
DecrementOnMissing(c) == c - 1

\* Mutant: the success path answers without its decrement.
DecrementOnSuccess_Skipped(c) == c

\* audioProcessingCount-- of the success path.
DecrementOnSuccess(c) == c - 1

\* Mutant: the catch block does not decrement.
DecrementOnError_Skipped(c) == c

\* audioProcessingCount-- at the head of the catch block.
DecrementOnError(c) == c - 1

-----------------------------------------------------------------------------
(* Responses. *)

MissingFileResponse(rec) ==
  [rec EXCEPT !.pc = "done", !.status = 400, !.responses = @ + 1,
              !.tag = IF rec.kind = "audio" THEN "No audio file provided"
                                            ELSE "No image file provided"]

\* res.json(parsedResult)
SuccessResponse(rec) ==
  [rec EXCEPT !.pc = "done", !.status = 200, !.tag = "result",
              !.responses = @ + 1,
              !.body = rec.parsedResult]

ErrorResponse(srv, rec) ==
  IF rec.kind = "image"
  THEN [rec EXCEPT !.pc = "done", !.status = 500, !.responses = @ + 1,
                   !.tag = "Failed to process image", !.message = TRUE]
  ELSE IF AudioErrorStatus(srv, rec.error) = 504
  THEN [rec EXCEPT !.pc = "done", !.status = 504, !.responses = @ + 1,
                   !.tag = "Audio processing timeout", !.message = TRUE]
  ELSE [rec EXCEPT !.pc = "done", !.status = 500, !.responses = @ + 1,
                   !.tag = "Failed to process audio", !.message = TRUE]

-----------------------------------------------------------------------------
(* The catch block: its removals in order, then the error response. *)

\* Mutant: the catch block answers right after its first removal.
AfterCatchInput_NoSecond(srv, rec) == "respond"

\* What follows the removal of inputFilePath in the catch block.
AfterCatchInput(srv, rec) ==
  IF rec.kind = "audio"
  THEN IF rec.inputJsonPath THEN "catchUnlinkJson" ELSE "respond"
  ELSE IF srv = "index_js" /\ rec.outputFilePath THEN "catchUnlinkOutput"
  ELSE "respond"

\* Mutant: the catch block does not remove inputFilePath.
AfterCatchStart_SkipInput(srv, rec) == AfterCatchInput(srv, rec)

\* The first await of the catch block.
AfterCatchStart(srv, rec) ==
  IF rec.inputFilePath THEN "catchUnlinkInput" ELSE AfterCatchInput(srv, rec)

\* Mutant: after the removals the exception leaves the handler unanswered.
CatchGoto_Escapes(srv, rec, next) ==
  IF next = "respond" THEN [rec EXCEPT !.pc = "escaped"]
  ELSE [rec EXCEPT !.pc = next, !.ops = @ \cup {"unlink"}]

\* The catch block goes on to its next removal, or sends the error response.
CatchGoto(srv, rec, next) ==
  IF next = "respond" THEN ErrorResponse(srv, rec)
  ELSE [rec EXCEPT !.pc = next, !.ops = @ \cup {"unlink"}]

\* An exception e reaches the catch block of request r: the block's
\* synchronous head runs, up to its first await or to the response.
Throw(r, e) ==
  /\ audioProcessingCount' =
        IF req[r].kind = "audio" THEN DecrementOnError(audioProcessingCount)
        ELSE audioProcessingCount
  /\ LET rec == [req[r] EXCEPT !.error = e, !.parsedResult = "none",
                    !.decs = @ + (audioProcessingCount - audioProcessingCount')]
     IN req' = [req EXCEPT ![r] = CatchGoto(server, rec, AfterCatchStart(server, rec))]

\* fs.unlink of a file: it can succeed only on a file that exists.
UnlinkOutcomes(f) == IF f \in disk THEN {TRUE, FALSE} ELSE {FALSE}

ScratchDir(kind) == IF kind = "audio" THEN "test_audio" ELSE "test_images"

-----------------------------------------------------------------------------
(* The handlers, one action per continuation. *)

\* Mutant: the handler starts its work without testing req.file.
FirstAwait_NoValidation(rec) ==
  [rec EXCEPT !.pc = "mkdirScratch", !.ops = {"mkdir"}]

\* Mutant: the 400 is sent without return and the handler goes on.
FirstAwait_NoReturn(rec) ==
  IF ~rec.file
  THEN [MissingFileResponse(rec) EXCEPT !.pc = "mkdirScratch", !.ops = {"mkdir"}]
  ELSE [rec EXCEPT !.pc = "mkdirScratch", !.ops = {"mkdir"}]

\* if (!req.file) return res.status(400)...; otherwise the first mkdir is
\* started.
FirstAwait(rec) ==
  IF ~rec.file THEN MissingFileResponse(rec)
  ELSE [rec EXCEPT !.pc = "mkdirScratch", !.ops = {"mkdir"}]

\* Mutant: the handler takes the copy for the upload.
ReqFilePath_Input(r) == <<"work", r>>

\* req.file.path, where multer stored the upload.
ReqFilePath(r) == <<"upload", r>>

\* The request arrives (multer has stored the upload, if any) and the
\* handler runs to its first await.
Receive(r, k, f) ==
  /\ req[r].pc = "idle"
  /\ \A q \in Reqs : q < r => req[q].pc # "idle"
  /\ disk' = IF f THEN disk \cup {ReqFilePath(r)} ELSE disk
  /\ LET c1 == IF k = "audio" THEN IncrementOnEntry(audioProcessingCount)
               ELSE audioProcessingCount
         c2 == IF k = "audio" /\ ~f THEN DecrementOnMissing(c1) ELSE c1
         rec == [req[r] EXCEPT !.kind = k, !.file = f,
                    !.incs = c1 - audioProcessingCount, !.decs = c1 - c2]
     IN /\ audioProcessingCount' = c2
        /\ req' = [req EXCEPT ![r] = FirstAwait(rec)]
  /\ UNCHANGED <<server, dirs>>

\* await fs.mkdir(TEST_IMAGES_DIR | TEST_AUDIO_DIR, { recursive: true })
MkdirScratch(r) ==
  /\ req[r].pc = "mkdirScratch"
  /\ \E ok \in BOOLEAN :
       IF ok
       THEN /\ dirs' = dirs \cup {ScratchDir(req[r].kind)}
            /\ req' = [req EXCEPT ![r] =
                 IF HasOutputDir(server, req[r].kind)
                 THEN [@ EXCEPT !.pc = "mkdirOutput"]
                 ELSE [@ EXCEPT !.pc = "copyFile", !.inputFilePath = TRUE,
                                !.ops = @ \cup {"copy"}]]
            /\ UNCHANGED audioProcessingCount
       ELSE Throw(r, "EIO") /\ UNCHANGED dirs
  /\ UNCHANGED <<server, disk>>

\* await fs.mkdir(OUTPUT_DIR, { recursive: true }); inputFilePath = ...
MkdirOutput(r) ==
  /\ req[r].pc = "mkdirOutput"
  /\ \E ok \in BOOLEAN :
       IF ok
       THEN /\ dirs' = dirs \cup {"output"}
            /\ req' = [req EXCEPT ![r] =
                 [@ EXCEPT !.pc = "copyFile", !.inputFilePath = TRUE,
                           !.ops = @ \cup {"copy"}]]
            /\ UNCHANGED audioProcessingCount
       ELSE Throw(r, "EIO") /\ UNCHANGED dirs
  /\ UNCHANGED <<server, disk>>

\* await fs.copyFile(req.file.path, inputFilePath)
CopyFile(r) ==
  /\ req[r].pc = "copyFile"
  /\ \E ok \in BOOLEAN :
       IF ok
       THEN /\ disk' = disk \cup {<<"work", r>>}
            /\ req' = [req EXCEPT ![r] =
                 [@ EXCEPT !.pc = "unlinkUpload", !.ops = @ \cup {"unlink"}]]
            /\ UNCHANGED audioProcessingCount
       ELSE Throw(r, "EIO") /\ UNCHANGED disk
  /\ UNCHANGED <<server, dirs>>

\* await fs.unlink(req.file.path); then the descriptor is named and its write
\* started (audio), or the backend call is started (image).
UnlinkUpload(r) ==
  /\ req[r].pc = "unlinkUpload"
  /\ \E ok \in UnlinkOutcomes(ReqFilePath(r)) :
       IF ok
       THEN /\ disk' = disk \ {ReqFilePath(r)}
            /\ req' = [req EXCEPT ![r] =
                 IF req[r].kind = "audio"
                 THEN [@ EXCEPT !.pc = "writeFile", !.inputJsonPath = TRUE,
                                !.ops = @ \cup {"write"}]
                 ELSE [@ EXCEPT !.pc = "axiosPost", !.ops = @ \cup {"post"}]]
            /\ UNCHANGED audioProcessingCount
       ELSE Throw(r, "EIO") /\ UNCHANGED disk
  /\ UNCHANGED <<server, dirs>>

\* await fs.writeFile(inputJsonPath, JSON.stringify(input_json), 'utf-8')
WriteFile(r) ==
  /\ req[r].pc = "writeFile"
  /\ \E ok \in BOOLEAN :
       IF ok
       THEN /\ disk' = disk \cup {<<"desc", r>>}
            /\ req' = [req EXCEPT ![r] =
                 [@ EXCEPT !.pc = "axiosPost", !.ops = @ \cup {"post"}]]
            /\ UNCHANGED audioProcessingCount
       ELSE Throw(r, "EIO") /\ UNCHANGED disk
  /\ UNCHANGED <<server, dirs>>

\* The entries of a results list: null (falsy), an object that only points
\* to a result artifact ({ result_path }), an object with inline results.
Entries == {"null", "pointer", "inline"}

ResultLists ==
  {<<>>} \cup {<<a>> : a \in Entries} \cup {<<a, b>> : a, b \in Entries}

\* The bodies a backend can answer with.  success: the status field is the
\* success marker the handler tests ('completed', 'ok', or a truthy success).
\* hasResults: the body has a results field; results: its list.
Bodies ==
  {b \in [success : BOOLEAN, hasResults : BOOLEAN, results : ResultLists] :
     ~b.hasResults => b.results = <<>>}

\* data.results?.[0]
\* The answers that tell the branches of the handlers apart: a status, and
\* no list, an empty list, a list whose first entry is null, or a list whose
\* first entry has a result_path.  Spec draws the answers of the backends
\* from these, WatchSpec from all of Bodies.
BranchBodies ==
  {b \in Bodies : b.results \in {<<>>, <<"null">>, <<"pointer">>}}

First(body) ==
  IF body.hasResults /\ Len(body.results) > 0 THEN body.results[1]
  ELSE "undefined"

\* JavaScript truthiness of an entry.
Truthy(v) == v \notin {"undefined", "null"}

\* data.results?.[0]?.result_path is truthy.
HasResultPath(v) == v = "pointer"

\* Mutant: the handler tests the results only, not the status field.
AnswerValid_IgnoreStatus(srv, kind, body) ==
  IF UsesPoller(srv, kind) THEN HasResultPath(First(body))
  ELSE Truthy(First(body))

\* The handlers' test of the answer:
\*   data.status !== 'completed' || !data.results?.[0]               (audio)
\*   !data.success || !data.results?.[0]                      (image, part_000)
\*   data.status !== 'ok' || !data.results?.[0]?.result_path  (image, index.js)
AnswerValid(srv, kind, body) ==
  /\ body.success
  /\ IF UsesPoller(srv, kind) THEN HasResultPath(First(body))
     ELSE Truthy(First(body))

\* The backend answers the axios.post of request r with a 2xx and a body.
\* wrote: the audio backend, which answers when its processing is over, has
\* left a result file in the output_dir of the submission.
BackendAnswers(r, body, wrote) ==
  /\ req[r].pc = "axiosPost"
  /\ wrote => req[r].kind = "audio" /\ AnswerValid(server, "audio", body)
  /\ disk' = IF wrote THEN disk \cup {<<"result", r>>} ELSE disk
  /\ IF AnswerValid(server, req[r].kind, body)
     THEN /\ req' = [req EXCEPT ![r] =
               IF UsesPoller(server, req[r].kind)
               THEN [@ EXCEPT !.pc = "access", !.outputFilePath = TRUE,
                              !.ops = @ \cup {"access"}]
               ELSE [@ EXCEPT !.pc = "unlinkInput", !.backendWrote = wrote,
                              !.parsedResult = First(body),
                              !.ops = @ \cup {"unlink"}]]
          /\ UNCHANGED audioProcessingCount
     ELSE Throw(r, "INVALID")
  /\ UNCHANGED <<server, dirs>>

\* The axios.post of request r fails on the network.
BackendFails(r, e) ==
  /\ req[r].pc = "axiosPost"
  /\ Throw(r, e)
  /\ UNCHANGED <<server, disk, dirs>>

\* The timeout given to axios.post expires before the backend answers.
AxiosTimeout(r) ==
  /\ req[r].pc = "axiosPost"
  /\ PostTimeout(server, req[r].kind)
  /\ Throw(r, "ECONNABORTED")
  /\ UNCHANGED <<server, disk, dirs>>

\* The image backend of the polling pipeline writes the result file its
\* answer points to; it may do so at any moment after the answer.
BackendWriteResult(r) ==
  /\ UsesPoller(server, req[r].kind)
  /\ req[r].outputFilePath
  /\ ~req[r].backendWrote
  /\ disk' = disk \cup {<<"result", r>>}
  /\ req' = [req EXCEPT ![r] = [@ EXCEPT !.backendWrote = TRUE]]
  /\ UNCHANGED <<server, audioProcessingCount, dirs>>

\* waitForFile: await fs.access(filePath) completes.
WaitAccess(r) ==
  /\ req[r].pc = "access"
  /\ req' = [req EXCEPT ![r] =
       IF <<"result", r>> \in disk
       THEN [@ EXCEPT !.pc = "readFile", !.waited = 0, !.ops = @ \cup {"read"}]
       ELSE [@ EXCEPT !.pc = "sleep"]]
  /\ UNCHANGED <<server, audioProcessingCount, disk, dirs>>

\* waitForFile: the sleep of intervalMs ends and the loop condition is
\* evaluated again; the timeout error is thrown when it is false.
WaitSleep(r) ==
  /\ req[r].pc = "sleep"
  /\ IF req[r].waited + 1 < MaxWait
     THEN /\ req' = [req EXCEPT ![r] =
               [@ EXCEPT !.pc = "access", !.waited = @ + 1]]
          /\ UNCHANGED audioProcessingCount
     ELSE Throw(r, "POLL_TIMEOUT")
  /\ UNCHANGED <<server, disk, dirs>>

\* await fs.readFile(outputFilePath, 'utf-8'); JSON.parse(resultData)
ReadFile(r, outcome) ==
  /\ req[r].pc = "readFile"
  /\ IF outcome = "ok"
     THEN /\ req' = [req EXCEPT ![r] =
               [@ EXCEPT !.pc = "unlinkInput", !.parsedResult = "fileContent",
                         !.ops = @ \cup {"unlink"}]]
          /\ UNCHANGED audioProcessingCount
     ELSE Throw(r, outcome)
  /\ UNCHANGED <<server, disk, dirs>>

\* Success path: await fs.unlink(inputFilePath)
UnlinkInput(r) ==
  /\ req[r].pc = "unlinkInput"
  /\ \E ok \in UnlinkOutcomes(<<"work", r>>) :
       IF ok
       THEN /\ disk' = disk \ {<<"work", r>>}
            /\ req' = [req EXCEPT ![r] =
                 IF req[r].kind = "audio" THEN [@ EXCEPT !.pc = "unlinkJson"]
                 ELSE IF UsesPoller(server, req[r].kind)
                 THEN [@ EXCEPT !.pc = "unlinkOutput"]
                 ELSE SuccessResponse(@)]
            /\ UNCHANGED audioProcessingCount
       ELSE Throw(r, "ENOENT") /\ UNCHANGED disk
  /\ UNCHANGED <<server, dirs>>

\* Audio success path: await fs.unlink(inputJsonPath);
\* audioProcessingCount--; res.json(parsedResult)
UnlinkJson(r) ==
  /\ req[r].pc = "unlinkJson"
  /\ \E ok \in UnlinkOutcomes(<<"desc", r>>) :
       IF ok
       THEN /\ disk' = disk \ {<<"desc", r>>}
            /\ audioProcessingCount' = DecrementOnSuccess(audioProcessingCount)
            /\ req' = [req EXCEPT ![r] = SuccessResponse(
                 [@ EXCEPT !.decs = @ + (audioProcessingCount - audioProcessingCount')])]
       ELSE Throw(r, "ENOENT") /\ UNCHANGED disk
  /\ UNCHANGED <<server, dirs>>

\* Image success path of index.js: await fs.unlink(outputFilePath);
\* res.json(parsedResult)
UnlinkOutput(r) ==
  /\ req[r].pc = "unlinkOutput"
  /\ \E ok \in UnlinkOutcomes(<<"result", r>>) :
       IF ok
       THEN /\ disk' = disk \ {<<"result", r>>}
            /\ req' = [req EXCEPT ![r] = SuccessResponse(@)]
            /\ UNCHANGED audioProcessingCount
       ELSE Throw(r, "ENOENT") /\ UNCHANGED disk
  /\ UNCHANGED <<server, dirs>>

\* One removal of the catch block, try { await fs.unlink(path) } catch {},
\* followed by the block's next removal or by the error response.
CatchUnlink(r, at, what, next) ==
  /\ req[r].pc = at
  /\ \E ok \in UnlinkOutcomes(<<what, r>>) :
       /\ disk' = IF ok THEN disk \ {<<what, r>>} ELSE disk
       /\ req' = [req EXCEPT ![r] = CatchGoto(server,
            [@ EXCEPT !.rmAtCatch = @ \cup {what},
                      !.rmFailed = IF ok THEN @ \ {what} ELSE @ \cup {what}],
            next)]
  /\ UNCHANGED <<server, audioProcessingCount, dirs>>

CatchUnlinkInput(r) ==
  CatchUnlink(r, "catchUnlinkInput", "work", AfterCatchInput(server, req[r]))

CatchUnlinkJson(r) == CatchUnlink(r, "catchUnlinkJson", "desc", "respond")

CatchUnlinkOutput(r) == CatchUnlink(r, "catchUnlinkOutput", "result", "respond")

-----------------------------------------------------------------------------
\* What reading and parsing the result file can end in.
ReadOutcomes == {"ok", "EIO", "PARSE"}

\* The continuations of request r's handler that need no backend.
Step(r) ==
  \/ MkdirScratch(r)
  \/ MkdirOutput(r)
  \/ CopyFile(r)
  \/ UnlinkUpload(r)
  \/ WriteFile(r)
  \/ AxiosTimeout(r)
  \/ WaitAccess(r)
  \/ WaitSleep(r)
  \/ \E o \in ReadOutcomes : ReadFile(r, o)
  \/ UnlinkInput(r)
  \/ UnlinkJson(r)
  \/ UnlinkOutput(r)
  \/ CatchUnlinkInput(r)
  \/ CatchUnlinkJson(r)
  \/ CatchUnlinkOutput(r)

Next ==
  /\ \E r \in Reqs :
       \/ \E k \in Kinds, f \in BOOLEAN : Receive(r, k, f)
       \/ Step(r)
       \/ /\ req[r].pc = "axiosPost"
          /\ \E b \in BranchBodies, w \in BOOLEAN : BackendAnswers(r, b, w)
       \/ \E e \in NetworkErrors : BackendFails(r, e)
       \/ BackendWriteResult(r)
  /\ UNCHANGED <<answered, health, poll, names, front>>

Spec == Init /\ [][Next]_vars

\* The event loop runs every continuation that is ready, and a configured
\* timer fires; nothing obliges the backend to answer.
FairSpec ==
  Spec /\ \A r \in Reqs : WF_vars(Step(r) /\ UNCHANGED <<answered, health, poll, names, front>>)

-----------------------------------------------------------------------------
(* Vocabulary of the properties. *)

Started(r) == req[r].pc # "idle"

\* The request has reached its terminal outcome: its response is sent.
Done(r) == req[r].pc = "done"

Audio(r) == Started(r) /\ req[r].kind = "audio"

\* The positions of the catch block's cleanup.
CatchPcs == {"catchUnlinkInput", "catchUnlinkJson", "catchUnlinkOutput"}

\* The files of request r that exist.
FilesOf(r) == {f \in disk : f[2] = r}

\* The artifacts whose path the handler of r has assigned.
Assigned(r) ==
  (IF req[r].inputFilePath THEN {"work"} ELSE {})
    \cup (IF req[r].inputJsonPath THEN {"desc"} ELSE {})
    \cup (IF req[r].outputFilePath THEN {"result"} ELSE {})

-----------------------------------------------------------------------------
\* C1: every POST /analyze-audio request increments audioProcessingCount
\* exactly once and, on every exit path, decrements it exactly once: it never
\* decrements twice, and when its response is sent it has decremented once.
C1_ExactlyOnce ==
  \A r \in Reqs :
    Audio(r) =>
      /\ req[r].incs = 1
      /\ req[r].decs <= 1
      /\ Done(r) => req[r].decs = 1

\* An audio request that failed after both of its files were named, and
\* whose catch block tried to remove both, has answered.
C1_Witness ==
  \E r \in Reqs :
    /\ Audio(r) /\ Done(r)
    /\ req[r].error = "EIO" /\ req[r].rmAtCatch = {"work", "desc"}
    /\ req[r].incs = 1 /\ req[r].decs = 1

\* C2: once all the requests of a run, interleaved in any order and ended in
\* any mix of success and failure, have sent their response,
\* audioProcessingCount is back to 0.
C2_BackToZero ==
  (\A r \in Reqs : Done(r)) => audioProcessingCount = 0

\* All requests were audio requests with a file; one succeeded, one failed.
C2_Witness ==
  /\ \A r \in Reqs : Audio(r) /\ Done(r) /\ req[r].file
  /\ \E r \in Reqs : req[r].status = 200
  /\ \E r \in Reqs : req[r].status >= 500
  /\ audioProcessingCount = 0

\* C3, as claimed: audioProcessingCount is non-negative and is the number of
\* audio requests that have incremented it and have not sent their response.
C3_CountsUnanswered ==
  /\ audioProcessingCount >= 0
  /\ audioProcessingCount =
       Cardinality({r \in Reqs : Audio(r) /\ req[r].incs = 1 /\ ~Done(r)})

\* C3, amended: audioProcessingCount is non-negative and is the number of
\* audio requests that are still in their try block, that is, have neither
\* answered nor entered the catch block; it is never more than the number of
\* requests that have not sent their response.
C3_CountsTryBlock ==
  /\ audioProcessingCount >= 0
  /\ audioProcessingCount =
       Cardinality({r \in Reqs : Audio(r) /\ ~Done(r) /\ req[r].pc \notin CatchPcs})
  /\ audioProcessingCount <= Cardinality({r \in Reqs : Audio(r) /\ ~Done(r)})

\* One audio request waits for the backend while another is in the cleanup
\* of its catch block: only the first is counted.
C3_Witness ==
  \E r, q \in Reqs :
    /\ Audio(r) /\ req[r].pc = "catchUnlinkJson"
    /\ Audio(q) /\ req[q].pc = "axiosPost"
    /\ audioProcessingCount = 1

\* C4, as claimed: when a request has sent its response, its working file
\* and its descriptor do not exist.
C4_ArtifactsGone ==
  \A r \in Reqs :
    Done(r) => <<"work", r>> \notin disk /\ <<"desc", r>> \notin disk

\* C4, amended: when a request has sent its response, its working file and
\* its descriptor do not exist, except a file whose removal the catch block
\* attempted and saw fail.
C4_GoneUnlessRemovalFailed ==
  \A r \in Reqs :
    Done(r) =>
      \A a \in {"work", "desc"} : <<a, r>> \in disk => a \in req[r].rmFailed

\* An audio request failed at the backend and its catch block removed both
\* files, which had been created.
C4_Witness ==
  \E r \in Reqs :
    /\ Audio(r) /\ Done(r) /\ req[r].error = "ECONNREFUSED"
    /\ req[r].rmAtCatch = {"work", "desc"} /\ req[r].rmFailed = {}
    /\ FilesOf(r) = {}

\* C5: when an error response (500 or 504) is sent, the removal of every
\* artifact whose path the handler had assigned (working file, descriptor,
\* result file) has been attempted in the catch block.
C5_CleanupBeforeError ==
  \A r \in Reqs :
    Done(r) /\ req[r].status >= 500 => Assigned(r) \subseteq req[r].rmAtCatch

\* An image request of the polling pipeline failed after its result path was
\* assigned, and an audio request failed after its descriptor was named.
C5_Witness ==
  /\ \E r \in Reqs :
       /\ Done(r) /\ req[r].kind = "image" /\ req[r].status = 500
       /\ Assigned(r) = {"work", "result"}
  /\ \E r \in Reqs :
       /\ Done(r) /\ req[r].kind = "audio" /\ req[r].status >= 500
       /\ Assigned(r) = {"work", "desc"}

\* C6, as claimed: after a successful request has sent its response, no file
\* of that request remains in the scratch directories or in the output
\* directory, the result file the backend wrote for it included.
C6_NothingRemains ==
  \A r \in Reqs :
    Done(r) /\ req[r].status = 200 =>
      FilesOf(r) \cap {<<"work", r>>, <<"desc", r>>, <<"result", r>>} = {}

\* C7, as claimed: every request that arrives eventually sends its response,
\* whether or not the backend answers.
C7_EventuallyAnswered ==
  \A r \in Reqs : Started(r) ~> Done(r)

\* C8: a request without its file is answered with 400 in the step in which
\* it arrives, and its handler issues no file operation and no backend call
\* and leaves no file.
C8_MissingFile ==
  \A r \in Reqs :
    Started(r) /\ ~req[r].file =>
      /\ Done(r) /\ req[r].status = 400
      /\ req[r].ops = {}
      /\ FilesOf(r) = {}

\* An image and an audio request without a file have been answered while no
\* directory exists.
C8_Witness ==
  /\ \E r \in Reqs : Done(r) /\ ~req[r].file /\ req[r].kind = "image"
  /\ \E r \in Reqs : Done(r) /\ ~req[r].file /\ req[r].kind = "audio"
  /\ dirs = {}

\* C9, as claimed: an audio request whose backend call failed with a timeout
\* or a connection reset is answered with 504 and the error
\* "Audio processing timeout".
C9_Timeout504 ==
  \A r \in Reqs :
    Audio(r) /\ Done(r) /\ req[r].error \in {"ECONNABORTED", "ECONNRESET"} =>
      req[r].status = 504 /\ req[r].tag = "Audio processing timeout"

\* C10: an audio request whose backend answer violated the contract, or
\* whose backend call was refused, is answered with 500 and the error
\* "Failed to process audio", never with 504.
C10_Generic500 ==
  \A r \in Reqs :
    Audio(r) /\ Done(r) /\ req[r].error \in {"INVALID", "ECONNREFUSED"} =>
      req[r].status = 500 /\ req[r].tag = "Failed to process audio"

\* Under part_000, which has the 504 branch, one audio request was answered
\* after a contract violation and another after a refused connection.
C10_Witness ==
  /\ server = "part_000"
  /\ \E r \in Reqs : Audio(r) /\ Done(r) /\ req[r].error = "INVALID"
  /\ \E r \in Reqs : Audio(r) /\ Done(r) /\ req[r].error = "ECONNREFUSED"
-----------------------------------------------------------------------------
(* The gateway with the answers of the backends recorded: a few requests,   *)
(* every answer of Bodies, and for each request what its backend answered.  *)

\* The number of requests of WatchSpec and HealthSpec.
NumWatched == 1

Watched == 1..NumWatched

\* What is recorded of an answer: its success marker, whether its result
\* list has an entry, and its first entry.
Summary(body) ==
  [ got      |-> TRUE,
    success  |-> body.success,
    nonEmpty |-> body.hasResults /\ Len(body.results) > 0,
    first    |-> First(body),
    late     |-> FALSE ]

\* The backend finishes with request r after the timeout of axios.post has
\* expired: nobody is waiting for its answer.
BackendFinishesLate(r) ==
  /\ req[r].error = "ECONNABORTED"
  /\ ~answered[r].late
  /\ answered' = [answered EXCEPT ![r] = [@ EXCEPT !.late = TRUE]]
  /\ UNCHANGED gateway

WatchNext ==
  /\ \E r \in Watched :
       \/ /\ \E k \in Kinds, f \in BOOLEAN : Receive(r, k, f)
          /\ UNCHANGED answered
       \/ Step(r) /\ UNCHANGED answered
       \/ /\ req[r].pc = "axiosPost"
          /\ \E b \in Bodies, w \in BOOLEAN : BackendAnswers(r, b, w)
                /\ answered' = [answered EXCEPT ![r] = Summary(b)]
       \/ /\ \E e \in NetworkErrors : BackendFails(r, e)
          /\ UNCHANGED answered
       \/ BackendWriteResult(r) /\ UNCHANGED answered
       \/ BackendFinishesLate(r)
  /\ UNCHANGED <<health, poll, names, front>>

WatchSpec == Init /\ [][WatchNext]_vars

\* WatchSpec with the event loop running every continuation that is ready.
FairWatchSpec ==
  WatchSpec /\ \A r \in Watched :
                 WF_vars(Step(r) /\ UNCHANGED <<answered, health, poll, names, front>>)

\* The backend of request r has answered.
Answered(r) == answered[r].got

Image(r) == Started(r) /\ req[r].kind = "image"

-----------------------------------------------------------------------------
\* C11: when the audio backend answers with its success status and a
\* non-empty result list, POST /analyze-audio responds 200 with a body that is
\* the first entry of that list, whatever the other entries are.
C11_FirstEntryReturned ==
  \A r \in Watched :
    Audio(r) /\ Done(r) /\ Answered(r)
      /\ answered[r].success /\ answered[r].nonEmpty
    => req[r].status = 200 /\ req[r].body = answered[r].first

\* C12: when the image backend's answer does not carry the success marker,
\* POST /analyze responds 500 with error and message, and the input file
\* copied to the scratch directory has been removed.
C12_InputRemoved ==
  \A r \in Watched :
    Image(r) /\ Done(r) /\ Answered(r) /\ ~answered[r].success
    => /\ req[r].status = 500
       /\ req[r].tag = "Failed to process image" /\ req[r].message
       /\ <<"work", r>> \notin disk

\* C12, amended: when the image backend's answer does not carry the success
\* marker, POST /analyze responds 500 with error and message, after the catch
\* block has attempted to remove the input file; the file is gone unless that
\* removal failed.
C12_InputRemovalAttempted ==
  \A r \in Watched :
    Image(r) /\ Done(r) /\ Answered(r) /\ ~answered[r].success
    => /\ req[r].status = 500
       /\ req[r].tag = "Failed to process image" /\ req[r].message
       /\ "work" \in req[r].rmAtCatch
       /\ <<"work", r>> \in disk => "work" \in req[r].rmFailed

\* The image backend answered without the success marker a list that would
\* otherwise be accepted; the request got 500 and its input file is removed.
C12_Witness ==
  \E r \in Watched :
    /\ Image(r) /\ Done(r) /\ Answered(r)
    /\ ~answered[r].success /\ answered[r].first = "pointer"
    /\ req[r].status = 500 /\ req[r].rmFailed = {}
    /\ "copy" \in req[r].ops /\ <<"work", r>> \notin disk

\* C13: when the image backend's answer carries the success marker and
\* inline results, POST /analyze returns those results with status 200 and
\* waitForFile is never called for the request.
C13_InlineReturned ==
  \A r \in Watched :
    Image(r) /\ Done(r) /\ Answered(r)
      /\ answered[r].success /\ answered[r].first = "inline"
    => /\ req[r].status = 200 /\ req[r].body = "inline"
       /\ "access" \notin req[r].ops

\* C14: when the image backend's answer carries the success marker and only
\* a pointer to a result file, a 200 response of POST /analyze comes after
\* waitForFile was called and carries the parsed content of the file, not the
\* pointer.
C14_PointerPolled ==
  \A r \in Watched :
    Image(r) /\ Done(r) /\ Answered(r)
      /\ answered[r].success /\ answered[r].first = "pointer"
      /\ req[r].status = 200
    => req[r].body = "fileContent" /\ "access" \in req[r].ops


-----------------------------------------------------------------------------
(* The health checks: GET /api/health/audio and GET /api/health/image,      *)
(* handled while requests are being served.                                 *)

\* How axios.get(.../health, { timeout }) can end: an answer, axios' own
\* timeout (code ECONNABORTED, message 'timeout of ...ms exceeded'), or a
\* network error.
ProbeOutcomes == {"ok", "ECONNABORTED"} \cup NetworkErrors

\* Mutant: the short-circuit is taken only from the second request on.
IsProcessing_MoreThanOne(c) == c > 1

\* if (audioProcessingCount > 0)
IsProcessing(c) == c > 0

\* error.code === 'ECONNABORTED' || error.message.includes('timeout')
ProbeTimedOut(e) == e = "ECONNABORTED" \/ MessageIncludesTimeout(e)

\* Mutant: the catch block of the audio health check has no timeout branch.
AudioProbeStatus_NoTimeoutBranch(outcome) ==
  IF outcome = "ok" THEN "ready" ELSE "loading"

\* The status GET /api/health/audio answers after its probe.
AudioProbeStatus(outcome) ==
  IF outcome = "ok" THEN "ready"
  ELSE IF ProbeTimedOut(outcome) THEN "busy"
  ELSE "loading"

\* The status GET /api/health/image answers after its probe: its catch block
\* has one response.
ImageProbeStatus(outcome) ==
  IF outcome = "ok" THEN "ready" ELSE "loading"

\* The audio requests that have arrived and whose response is not sent.
Unanswered == {r \in Reqs : req[r].pc \notin {"idle", "done"} /\ req[r].kind = "audio"}

\* The audio requests whose response is sent.
Sent == {r \in Reqs : req[r].pc = "done" /\ req[r].kind = "audio"}

\* GET /api/health/audio arrives: the busy response at once, or the probe.
HealthAudio ==
  /\ health.pc # "probe"
  /\ health' =
       IF IsProcessing(audioProcessingCount)
       THEN [NoHealth EXCEPT !.pc = "done", !.seen = audioProcessingCount,
                             !.status = "busy", !.processing = TRUE,
                             !.count = audioProcessingCount,
                             !.atResponse = audioProcessingCount,
                             !.unanswered = Cardinality(Unanswered),
                             !.sent = Cardinality(Sent)]
       ELSE [NoHealth EXCEPT !.pc = "probe", !.seen = audioProcessingCount,
                             !.probes = 1,
                             !.unanswered = Cardinality(Unanswered),
                             !.sent = Cardinality(Sent)]
  /\ UNCHANGED <<gateway, answered, poll, names, front>>

\* GET /api/health/image arrives: the probe.
HealthImage ==
  /\ health.pc # "probe"
  /\ health' = [NoHealth EXCEPT !.pc = "probe", !.which = "image",
                                !.seen = audioProcessingCount, !.probes = 1]
  /\ UNCHANGED <<gateway, answered, poll, names, front>>

\* The probe ends and the handler answers.
ProbeEnds(outcome) ==
  /\ health.pc = "probe"
  /\ health' = [health EXCEPT
       !.pc = "done", !.probe = outcome,
       !.atResponse = audioProcessingCount,
       !.status = IF health.which = "audio" THEN AudioProbeStatus(outcome)
                  ELSE ImageProbeStatus(outcome)]
  /\ UNCHANGED <<gateway, answered, poll, names, front>>

\* One step of the gateway or of a backend for request r, as in Next.
Serve(r) ==
  /\ \/ \E k \in Kinds, f \in BOOLEAN : Receive(r, k, f)
     \/ Step(r)
     \/ /\ req[r].pc = "axiosPost"
        /\ \E b \in BranchBodies, w \in BOOLEAN : BackendAnswers(r, b, w)
     \/ \E e \in NetworkErrors : BackendFails(r, e)
     \/ BackendWriteResult(r)
  /\ UNCHANGED <<answered, health, poll, names, front>>

HealthNext ==
  \/ \E r \in Watched : Serve(r)
  \/ HealthAudio
  \/ HealthImage
  \/ \E o \in ProbeOutcomes : ProbeEnds(o)

HealthSpec == Init /\ [][HealthNext]_vars

\* A health check of the audio model has arrived.
AudioHealth == health.pc # "idle" /\ health.which = "audio"

\* A health check of the image model has been answered.
ImageHealthDone == health.pc = "done" /\ health.which = "image"

-----------------------------------------------------------------------------
\* C15: a GET /api/health/audio handled while audioProcessingCount > 0 is
\* answered at once with status busy and the count of that moment, and no
\* probe is sent to the audio backend.
C15_BusyWithoutProbe ==
  AudioHealth /\ health.seen > 0 =>
    /\ health.pc = "done" /\ health.status = "busy"
    /\ health.processing /\ health.count = health.seen
    /\ health.probes = 0

\* The audio health check arrived while one request was being processed.
C15_Witness ==
  /\ AudioHealth /\ health.seen = 1 /\ audioProcessingCount = 1
  /\ health.status = "busy" /\ health.count = 1

\* C16: a GET /api/health/audio handled with audioProcessingCount = 0 probes
\* the audio backend; a probe that succeeds gives ready, a probe that times
\* out gives busy, a probe that fails otherwise gives loading.
C16_AudioThreeWay ==
  AudioHealth /\ health.seen = 0 =>
    /\ health.probes = 1 /\ ~health.processing
    /\ health.pc = "done" =>
         /\ health.probe = "ok" => health.status = "ready"
         /\ health.probe = "ECONNABORTED" => health.status = "busy"
         /\ health.probe \in NetworkErrors => health.status = "loading"

\* The audio health check probed with the counter at zero, the probe timed
\* out and the answer was busy.
C16_Witness ==
  /\ AudioHealth /\ health.seen = 0 /\ health.pc = "done"
  /\ health.probe = "ECONNABORTED" /\ health.status = "busy"

\* C17: GET /api/health/image maps the outcome of its probe the same three
\* ways: success gives ready, a timeout gives busy, another error loading.
C17_ImageThreeWay ==
  ImageHealthDone =>
    /\ health.probes = 1
    /\ health.probe = "ok" => health.status = "ready"
    /\ health.probe = "ECONNABORTED" => health.status = "busy"
    /\ health.probe \in NetworkErrors => health.status = "loading"


-----------------------------------------------------------------------------
(* waitForFile(filePath, timeoutMs, intervalMs) on its own, with its clock. *)
(* Time passes only while the call sleeps: a check takes no time.  The file *)
(* can be created at any moment.                                            *)

\* The largest timeoutMs and intervalMs tried, in clock ticks.
MaxTimeout == 4

MaxInterval == 2

\* Date.now() when waitForFile is called.
Epochs == {0, 5}

PollInit ==
  /\ server \in Servers
  /\ audioProcessingCount = 0
  /\ disk = {}
  /\ dirs = {}
  /\ req = [r \in Reqs |-> Fresh]
  /\ answered = [r \in Reqs |-> NoAnswer]
  /\ health = NoHealth
  /\ names = NoNames
  /\ front = NoFront
  /\ \E t \in 0..MaxTimeout, i \in 1..MaxInterval, e \in Epochs :
       poll = [NoPoll EXCEPT !.timeoutMs = t, !.intervalMs = i, !.now = e]

\* while (Date.now() - startTime < timeoutMs)
LoopTest(now, startTime, timeoutMs) == now - startTime < timeoutMs

\* Mutant: the sleep lasts two intervals.
SleepTime_Double(intervalMs) == 2 * intervalMs

\* Mutant: a failed check is retried at once.
SleepTime_Zero(intervalMs) == 0

\* setTimeout(resolve, intervalMs)
SleepTime(intervalMs) == intervalMs

\* const startTime = Date.now()
PollCall ==
  /\ poll.pc = "idle"
  /\ poll' = [poll EXCEPT !.pc = "test", !.startTime = poll.now]
  /\ UNCHANGED <<gateway, answered, health, names, front>>

\* The loop test; when it fails, throw new Error('Timeout waiting for file').
PollTest ==
  /\ poll.pc = "test"
  /\ poll' = IF LoopTest(poll.now, poll.startTime, poll.timeoutMs)
             THEN [poll EXCEPT !.pc = "access"]
             ELSE [poll EXCEPT !.pc = "thrown", !.endedAt = poll.now]
  /\ UNCHANGED <<gateway, answered, health, names, front>>

\* await fs.access(filePath): return true, or start the sleep.
PollAccess ==
  /\ poll.pc = "access"
  /\ poll' = IF poll.exists
             THEN [poll EXCEPT !.pc = "returned", !.endedAt = poll.now,
                               !.checks = @ + 1, !.lastCheck = poll.now]
             ELSE [poll EXCEPT !.pc = "sleep",
                               !.wake = poll.now + SleepTime(poll.intervalMs),
                               !.checks = @ + 1, !.lastCheck = poll.now]
  /\ UNCHANGED <<gateway, answered, health, names, front>>

\* One tick of the clock during the sleep.
Tick ==
  /\ poll.pc = "sleep" /\ poll.now < poll.wake
  /\ poll' = [poll EXCEPT !.now = @ + 1]
  /\ UNCHANGED <<gateway, answered, health, names, front>>

\* The timer fires: back to the loop test.
PollWake ==
  /\ poll.pc = "sleep" /\ poll.now >= poll.wake
  /\ poll' = [poll EXCEPT !.pc = "test"]
  /\ UNCHANGED <<gateway, answered, health, names, front>>

\* The backend creates the file.
CreateFile ==
  /\ ~poll.exists /\ poll.pc \notin {"returned", "thrown"}
  /\ poll' = [poll EXCEPT !.exists = TRUE, !.createdAt = poll.now]
  /\ UNCHANGED <<gateway, answered, health, names, front>>

\* The steps of the call and of its clock.
PollStep == PollTest \/ PollAccess \/ Tick \/ PollWake

PollNext == PollCall \/ PollStep \/ CreateFile

PollSpec == PollInit /\ [][PollNext]_vars

\* The call runs on and its timers fire.
FairPollSpec == PollSpec /\ WF_vars(PollStep)

\* waitForFile has been called and has neither returned nor thrown.
Polling == poll.pc \in {"test", "access", "sleep"}

-----------------------------------------------------------------------------
\* C19: waitForFile returns true at the check that finds the file, with no
\* delay after it, and a file created after a failed check and before
\* timeoutMs has elapsed is observed by a later check: the call does not
\* throw.
C19_NoMissedWakeup ==
  /\ poll.pc = "returned" => poll.exists /\ poll.endedAt = poll.lastCheck
  /\ poll.pc = "thrown" /\ poll.checks >= 1 =>
       ~(poll.exists /\ poll.createdAt - poll.startTime < poll.timeoutMs)

\* C20: while the file does not exist waitForFile never returns true nor
\* runs later than timeoutMs + intervalMs after its call, it throws no later
\* than that, and a call during which the file does not appear ends thrown.
C20_TimeoutBound ==
  /\ [](/\ ~poll.exists => poll.pc # "returned"
        /\ ~poll.exists /\ Polling =>
             poll.now - poll.startTime <= poll.timeoutMs + poll.intervalMs
        /\ poll.pc = "thrown" =>
             poll.endedAt - poll.startTime <= poll.timeoutMs + poll.intervalMs)
  /\ Polling ~> (poll.pc = "thrown" \/ poll.exists)

\* The file never appeared and the call threw after two checks, later than
\* timeoutMs: the timeout is not a multiple of the interval.
C20_Witness ==
  /\ poll.pc = "thrown" /\ ~poll.exists /\ poll.checks = 2
  /\ poll.endedAt - poll.startTime > poll.timeoutMs


-----------------------------------------------------------------------------
\* C23: every failure inside a handler (artifact I/O, backend unreachable,
\* contract violation, timeout, malformed result) is handled by the catch
\* block of that handler, which ends by sending an error response.
C23_FailuresCaught ==
  /\ [](\A r \in Watched :
          req[r].error # "none" =>
            /\ req[r].pc \in CatchPcs \cup {"done"}
            /\ Done(r) => req[r].status >= 500 /\ req[r].message)
  /\ \A r \in Watched :
       (req[r].error # "none") ~> (Done(r) /\ req[r].status >= 500)

\* The result file of a request could not be parsed and the request was
\* answered 500.
C23_Witness ==
  \E r \in Watched :
    Done(r) /\ req[r].error = "PARSE" /\ req[r].status = 500

\* C24: every failure response of POST /analyze and POST /analyze-audio
\* (400, 500, 504) has a body with an error tag and a message.
C24_ErrorAndMessage ==
  \A r \in Reqs :
    Done(r) /\ req[r].status >= 400 =>
      req[r].tag \notin {"none", "result"} /\ req[r].message

\* C25: a removal that fails during cleanup is swallowed on every path, the
\* success path included: no request is answered with the error of a failed
\* removal.
C25_RemovalFailureSwallowed ==
  \A r \in Watched :
    Done(r) /\ Answered(r) => req[r].error # "ENOENT"

\* C26: when a request that carried a file has sent its response, its upload
\* file in uploads/ has been removed.
C26_UploadRemoved ==
  \A r \in Reqs :
    Done(r) /\ req[r].file => <<"upload", r>> \notin disk

\* C27: when a removal of a request has failed, the removal of every path
\* the handler holds (working file, descriptor, result file) has still been
\* attempted by the time the response is sent.
C27_OthersStillAttempted ==
  \A r \in Watched :
    Done(r) /\ (req[r].rmFailed # {} \/ req[r].error = "ENOENT") =>
      Assigned(r) \subseteq req[r].rmAtCatch

\* The removal of an audio request's working file failed in the catch block
\* and the removal of its descriptor was attempted after it, and succeeded.
C27_Witness ==
  \E r \in Watched :
    /\ Audio(r) /\ Done(r) /\ req[r].rmFailed = {"work"}
    /\ req[r].rmAtCatch = {"work", "desc"}
    /\ <<"work", r>> \in disk /\ <<"desc", r>> \notin disk

\* C29: in the polling image pipeline, when a request has sent its response
\* its result file is not in the output directory, whenever the backend
\* writes it.
C29_NoResultFileLeft ==
  \A r \in Reqs :
    Done(r) /\ UsesPoller(server, req[r].kind) => <<"result", r>> \notin disk


\* C28: waitForFile does not busy-spin: after a failed check it sleeps
\* intervalMs, once, before the loop test and the next check, so the k-th
\* check comes (k - 1) * intervalMs after the call; the check that finds the
\* file returns at that moment, without a sleep.
C28_NoBusySpin ==
  /\ poll.checks >= 1 =>
       poll.lastCheck - poll.startTime = (poll.checks - 1) * poll.intervalMs
  /\ poll.pc = "sleep" =>
       poll.wake = poll.lastCheck + poll.intervalMs /\ poll.now <= poll.wake
  /\ poll.pc \in {"test", "access"} /\ poll.checks >= 1 =>
       poll.now - poll.lastCheck = poll.intervalMs
  /\ poll.pc = "thrown" /\ poll.checks >= 1 =>
       poll.endedAt - poll.lastCheck = poll.intervalMs
  /\ poll.pc = "returned" =>
       poll.endedAt = poll.lastCheck /\ poll.now = poll.lastCheck

\* The first check failed, the call slept two ticks, and its second check
\* found the file and returned.
C28_Witness ==
  /\ poll.pc = "returned" /\ poll.checks = 2 /\ poll.intervalMs = 2
  /\ poll.endedAt - poll.startTime = 2


\* C30: on every path of POST /analyze-audio the decrement comes before the
\* response: a request whose response is sent has decremented, the counter
\* never exceeds the number of audio requests in progress, and a health
\* check never sees more than the requests in progress when it is handled.
C30_DecrementBeforeResponse ==
  /\ \A r \in Watched : req[r].kind = "audio" /\ Done(r) => req[r].decs = 1
  /\ audioProcessingCount <= Cardinality(Unanswered)
  /\ AudioHealth => health.seen <= health.unanswered

\* An audio health check was handled after the 200 response of an audio
\* request had been sent and while none was in progress: it saw the counter
\* at zero.
C30_Witness ==
  /\ AudioHealth /\ health.sent = 1 /\ health.unanswered = 0
  /\ health.seen = 0
  /\ Cardinality(Sent) = 1 /\ \A r \in Sent : req[r].status = 200


-----------------------------------------------------------------------------
(* The paths of the polling image pipeline (index.js): the working file is  *)
(* named by a fresh uuidv4(), the result file by the basename of the        *)
(* result_path the backend answers, whatever it is.                         *)

\* The number of names the backend chooses result_path from.
NumNames == 2

ResultNames == 1..NumNames

PathInit == Init /\ server = "index_js"

\* The files of OUTPUT_DIR with name n.
At(n) == {f \in names.out : f[1] = n}

\* The catch block is entered: its first removal is started.
PathThrow(rec) == [rec EXCEPT !.pc = "catchUnlinkInput", !.failed = TRUE]

\* The request arrives; inputFilePath embeds a fresh uuidv4() and the upload
\* is copied to it.
PathReceive(r) ==
  /\ names.rq[r].pc = "idle"
  /\ \A q \in Reqs : q < r => names.rq[q].pc # "idle"
  /\ names' = [names EXCEPT
       !.nextId = @ + 1,
       !.work = @ \cup {names.nextId},
       !.rq[r] = [@ EXCEPT !.pc = "axiosPost", !.input = names.nextId]]

\* The backend answers with result_path n:
\* outputFilePath = path.join(OUTPUT_DIR, path.basename(resultPath)).
PathAnswer(r, n) ==
  /\ names.rq[r].pc = "axiosPost"
  /\ names' = [names EXCEPT !.rq[r] = [@ EXCEPT !.pc = "access", !.output = n]]

\* The backend call fails or its answer is invalid.
PathBackendFails(r) ==
  /\ names.rq[r].pc = "axiosPost"
  /\ names' = [names EXCEPT !.rq[r] = PathThrow(@)]

\* The backend writes the result of request r to the path it answered.
PathWrite(r) ==
  /\ names.rq[r].output # 0 /\ ~names.rq[r].wrote
  /\ names' = [names EXCEPT
       !.out = (@ \ At(names.rq[r].output)) \cup {<<names.rq[r].output, r>>},
       !.rq[r] = [@ EXCEPT !.wrote = TRUE]]

\* waitForFile(outputFilePath) finds a file at the path.
PathFound(r) ==
  /\ names.rq[r].pc = "access"
  /\ At(names.rq[r].output) # {}
  /\ names' = [names EXCEPT !.rq[r] = [@ EXCEPT !.pc = "readFile"]]

\* waitForFile(outputFilePath) times out.
PathTimeout(r) ==
  /\ names.rq[r].pc = "access"
  /\ At(names.rq[r].output) = {}
  /\ names' = [names EXCEPT !.rq[r] = PathThrow(@)]

\* await fs.readFile(outputFilePath): the content of whatever is there.
PathRead(r) ==
  /\ names.rq[r].pc = "readFile"
  /\ names' = [names EXCEPT !.rq[r] =
       IF At(names.rq[r].output) = {} THEN PathThrow(@)
       ELSE [@ EXCEPT !.pc = "unlinkInput",
                      !.read = (CHOOSE f \in At(names.rq[r].output) : TRUE)[2]]]

\* Success path: await fs.unlink(inputFilePath)
PathUnlinkInput(r) ==
  /\ names.rq[r].pc = "unlinkInput"
  /\ names' = [names EXCEPT
       !.work = @ \ {names.rq[r].input},
       !.rq[r] = [@ EXCEPT !.pc = "unlinkOutput"]]

\* Success path: await fs.unlink(outputFilePath); res.json(parsedResult)
PathUnlinkOutput(r) ==
  /\ names.rq[r].pc = "unlinkOutput"
  /\ names' = [names EXCEPT
       !.out = @ \ At(names.rq[r].output),
       !.rq[r] =
         IF At(names.rq[r].output) = {} THEN PathThrow(@)
         ELSE [@ EXCEPT !.pc = "done", !.status = 200,
                 !.removed = @ \cup {f[2] : f \in At(names.rq[r].output)}]]

\* Catch block: try { await fs.unlink(inputFilePath) } catch {}
PathCatchUnlinkInput(r) ==
  /\ names.rq[r].pc = "catchUnlinkInput"
  /\ names' = [names EXCEPT
       !.work = @ \ {names.rq[r].input},
       !.rq[r] = IF names.rq[r].output # 0
                 THEN [@ EXCEPT !.pc = "catchUnlinkOutput"]
                 ELSE [@ EXCEPT !.pc = "done", !.status = 500]]

\* Catch block: try { await fs.unlink(outputFilePath) } catch {}; 500
PathCatchUnlinkOutput(r) ==
  /\ names.rq[r].pc = "catchUnlinkOutput"
  /\ names' = [names EXCEPT
       !.out = @ \ At(names.rq[r].output),
       !.rq[r] = [@ EXCEPT !.pc = "done", !.status = 500,
                   !.removed = @ \cup {f[2] : f \in At(names.rq[r].output)}]]

PathNext ==
  /\ \E r \in Reqs :
       \/ PathReceive(r)
       \/ \E n \in ResultNames : PathAnswer(r, n)
       \/ PathBackendFails(r)
       \/ PathWrite(r)
       \/ PathFound(r)
       \/ PathTimeout(r)
       \/ PathRead(r)
       \/ PathUnlinkInput(r)
       \/ PathUnlinkOutput(r)
       \/ PathCatchUnlinkInput(r)
       \/ PathCatchUnlinkOutput(r)
  /\ UNCHANGED <<gateway, answered, health, poll, front>>

PathSpec == PathInit /\ [][PathNext]_vars

-----------------------------------------------------------------------------
\* C21: a request that fails or times out aborts only itself: what its
\* cleanup removes is its own, so every other request keeps its artifacts
\* until its own cleanup.
C21_OnlyOwnRequest ==
  \A r \in Reqs : names.rq[r].failed => names.rq[r].removed \subseteq {r}

\* C22: no two requests use the same path for a working file or for a result
\* file, and no request reads or removes a file that is of another request.
C22_ConflictFree ==
  /\ \A r, q \in Reqs :
       r # q =>
         /\ names.rq[r].input # 0 => names.rq[r].input # names.rq[q].input
         /\ names.rq[r].output # 0 => names.rq[r].output # names.rq[q].output
  /\ \A r \in Reqs :
       names.rq[r].read \in {0, r} /\ names.rq[r].removed \subseteq {r}


-----------------------------------------------------------------------------
\* C31: GET /api/health/audio never answers ready or loading at a moment
\* when audioProcessingCount > 0, however its probe is interleaved with the
\* POST /analyze-audio requests.
C31_NeverReadyWhileProcessing ==
  AudioHealth /\ health.pc = "done" /\ health.status \in {"ready", "loading"}
    => health.atResponse = 0

\* C33: waitForFile throws its timeout error only if the file was absent
\* during the whole of timeoutMs since the call: it does not throw when the
\* file came to exist before timeoutMs had elapsed.
C33_ThrowsOnlyIfAbsent ==
  poll.pc = "thrown" =>
    \/ ~poll.exists
    \/ poll.createdAt - poll.startTime >= poll.timeoutMs

\* C34: a POST /analyze-audio without a file is never counted: it has
\* incremented and decremented by the time anything else runs, so while the
\* only audio requests are without a file the counter is 0 and no audio
\* health check has answered busy from the counter.
C34_MissingFileNeverCounted ==
  /\ \A r \in Watched :
       Audio(r) /\ ~req[r].file =>
         Done(r) /\ req[r].incs = 1 /\ req[r].decs = 1
  /\ (\A r \in Watched : Audio(r) => ~req[r].file) =>
       /\ audioProcessingCount = 0
       /\ AudioHealth => health.seen = 0 /\ ~health.processing

\* An audio request without a file was answered 400 and an audio health
\* check handled after it probed the backend with the counter at zero.
C34_Witness ==
  /\ \E r \in Watched : Audio(r) /\ ~req[r].file /\ req[r].status = 400
  /\ \A r \in Watched : Audio(r) => ~req[r].file
  /\ AudioHealth /\ health.sent >= 1 /\ health.seen = 0 /\ health.probes = 1


\* C35: each request sends exactly one response on every path of its
\* handler: never a second one, and a handler that has ended has sent one.
C35_ExactlyOneResponse ==
  \A r \in Watched :
    /\ req[r].responses = (IF Done(r) THEN 1 ELSE 0)
    /\ Done(r) <=> req[r].status \in {200, 400, 500, 504}

\* A request went through the catch block after a removal of its success
\* path failed, and was answered once, with 500.
C35_Witness ==
  \E r \in Watched :
    /\ Done(r) /\ req[r].error = "ENOENT" /\ req[r].status = 500
    /\ req[r].responses = 1


\* The backend has been given request r and has not finished with it: the
\* call is pending, or it timed out and the backend is still at work.
Processing(r) ==
  \/ req[r].pc = "axiosPost"
  \/ req[r].error = "ECONNABORTED" /\ ~answered[r].late

\* The working file of r and, for audio, its descriptor exist.
InputsOnDisk(r) ==
  /\ <<"work", r>> \in disk
  /\ req[r].kind = "audio" => <<"desc", r>> \in disk

\* C32: from submission until the backend has finished with a request, its
\* working file and its descriptor exist on disk.
C32_KeptWhileProcessing ==
  \A r \in Watched : Processing(r) => InputsOnDisk(r)

\* C32, amended: from submission until axios.post settles (answer, network
\* error, or the timeout of the call), the request's working file and its
\* descriptor exist on disk.
C32_KeptWhileAwaiting ==
  \A r \in Watched : req[r].pc = "axiosPost" => InputsOnDisk(r)

\* An audio request is submitted and awaits the backend, with its upload
\* removed and both of its files on disk.
C32_Witness ==
  \E r \in Watched :
    /\ Audio(r) /\ req[r].pc = "axiosPost"
    /\ FilesOf(r) = {<<"work", r>>, <<"desc", r>>}


-----------------------------------------------------------------------------
(* The web front-end: uploadFile(fileData) of public/app.js, which the file *)
(* defines twice.                                                           *)

\* The two definitions of uploadFile, by their first line.
Copies == {"app_js_125", "app_js_911"}

TimeoutMessage ==
  "Processing timeout - the file may be too large or complex. Please try again."

\* The message field of the body of a failure response: absent, or a text.
ServerMessages == {"undefined", "server message"}

\* The statuses the gateway answers with.
HttpStatuses == {200, 400, 500, 504}

\* response.ok
Ok(st) == st >= 200 /\ st <= 299

\* a || b on strings
OrElse(a, b) == IF a \in {"undefined", ""} THEN b ELSE a

\* new Error(message): an object with a message and no response property.
NewError(message) == [message |-> message, response |-> "undefined"]

\* error.response?.status, 0 for undefined.
ResponseStatus(error) ==
  IF error.response = "undefined" THEN 0 ELSE error.response.status

\* What the catch block of uploadFile records as fileData.error.
CatchMessage(copy, error) ==
  IF copy = "app_js_125"
  THEN IF ResponseStatus(error) = 504 THEN TimeoutMessage
       ELSE OrElse(error.message, "Upload failed")
  ELSE error.message

FrontCatch(rec, error) ==
  [rec EXCEPT !.pc = "done", !.status = "error",
              !.error = CatchMessage(rec.copy, error)]

\* A file is dropped: uploadFile(fileData) runs to its await fetch(...).
UploadFile(f, c, t) ==
  /\ front[f].pc = "idle"
  /\ front' = [front EXCEPT ![f] =
       [@ EXCEPT !.pc = "fetch", !.copy = c, !.type = t,
                 !.status = "processing"]]
  /\ UNCHANGED <<gateway, answered, health, poll, names>>

\* fetch resolves with status st; a failure response has message m.
FetchResolves(f, st, m) ==
  /\ front[f].pc = "fetch"
  /\ Ok(st) => m = "undefined"
  /\ front' = [front EXCEPT ![f] =
       IF Ok(st)
       THEN [@ EXCEPT !.pc = "done", !.http = st, !.status = "completed",
                      !.error = IF front[f].copy = "app_js_125" THEN "null" ELSE @]
       ELSE FrontCatch([@ EXCEPT !.http = st],
                       NewError(OrElse(m, "Upload failed")))]
  /\ UNCHANGED <<gateway, answered, health, poll, names>>

\* fetch rejects: the gateway cannot be reached.
FetchRejects(f) ==
  /\ front[f].pc = "fetch"
  /\ front' = [front EXCEPT ![f] = FrontCatch(@, NewError("Failed to fetch"))]
  /\ UNCHANGED <<gateway, answered, health, poll, names>>

FrontNext ==
  \E f \in Files :
    \/ \E c \in Copies, t \in Kinds : UploadFile(f, c, t)
    \/ \E st \in HttpStatuses, m \in ServerMessages : FetchResolves(f, st, m)
    \/ FetchRejects(f)

FrontSpec == Init /\ [][FrontNext]_vars

\* C36: when the gateway answers an upload with status 504, uploadFile
\* records the processing-timeout message as the file's error, not the
\* server's message.
C36_TimeoutMessageOn504 ==
  \A f \in Files :
    front[f].pc = "done" /\ front[f].http = 504 /\ front[f].copy = "app_js_125"
      => front[f].error = TimeoutMessage

=============================================================================
